---- MODULE Spec2Model ----
(***************************************************************************)
(* A model of tapioca/core/manifest.py: the block deduplication registry,  *)
(* the manifest serialisation (block table, item trie, block ranges), the  *)
(* positional file diff and the disk preallocation guard.                  *)
(***************************************************************************)
EXTENDS Integers, Sequences, FiniteSets, TLC

VARIABLES
    blocks,        \* BlockRegistry.blocks, one list per registry
    _block_map,    \* BlockRegistry._block_map, one dict per registry
    last,          \* outcome of the latest register call
    direct,        \* TRUE once register was called on the parent itself
    ncalls,        \* number of register calls made so far
    pc,            \* per thread: the line of _register it is about to run
    arg,           \* per thread: the block passed to register
    block_id,      \* per thread: the local block_id of _register (line 55)
    ret,           \* per thread: what the latest register call returned
    manifest,      \* a Manifest: its files and its max_block_size
    stage,         \* which operation was last applied to the manifest
    manifest_proto,\* what Manifest.to_proto returned
    decoded,       \* what Manifest.from_proto did on manifest_proto
    expanded,      \* what FileInfo._get_blocks did on each item of the trie
    free,          \* shutil.disk_usage(root_dir).free
    prealloc,      \* what preallocate_space did, and what it created
    remote_file,   \* FileDiff's remote_file argument
    current_file,  \* FileDiff's current_file argument
    file_diff      \* what FileDiff(remote_file, current_file) did

vars == <<blocks, _block_map, last, direct, ncalls, pc, arg, block_id, ret,
          manifest, stage, manifest_proto, decoded, expanded, free, prealloc,
          remote_file, current_file, file_diff>>

regVars == <<blocks, _block_map, last, direct, ncalls>>
callVars == <<last, direct, ncalls>>
thrVars == <<pc, arg, block_id, ret>>
manVars == <<manifest, stage, manifest_proto, decoded, expanded, free,
             prealloc>>
diffVars == <<remote_file, current_file, file_diff>>

---------------------------------------------------------------------------
(* Values *)

None == "None"

\* What a call does: it returns a value or raises an error.
Returned(v) == [raised |-> FALSE, value |-> v]
Raised(e) == [raised |-> TRUE, error |-> e]

Hashes == {"A", "B", "C"}
Sizes == {1, 2}

\* The longest sequence of register calls explored.
MaxCalls == 4

\* BlockInfo = namedtuple("BlockInfo", "hash size")
BlockInfo == [hash : Hashes, size : Sizes]

\* The registries: one parent and its children (siblings).
Parent == "parent"
Children == {"child1", "child2"}
Registries == {Parent} \cup Children

\* BlockRegistry.parent, set by the constructor
parent(r) == IF r = Parent THEN None ELSE Parent

EmptyMap == [h \in {} |-> 0]

---------------------------------------------------------------------------
(* BlockRegistry *)

\* A variant of _register that has lost its membership test.
_register_always_append(bs, bm, block) ==
    [blocks |-> Append(bs, block),
     map    |-> (block.hash :> Len(bs)) @@ bm,
     result |-> Returned(Len(bs))]

\* A variant of _register that has lost its size assertion.
_register_no_assert(bs, bm, block) ==
    IF block.hash \in DOMAIN bm
    THEN [blocks |-> bs, map |-> bm, result |-> Returned(bm[block.hash])]
    ELSE [blocks |-> Append(bs, block),
          map    |-> (block.hash :> Len(bs)) @@ bm,
          result |-> Returned(Len(bs))]

\* _register on a registry whose list is bs and whose dict is bm: the list
\* and the dict after the call, and the id returned or the error raised.
\* Python lists are 0-based: blocks[idx] is bs[idx + 1].
_register(bs, bm, block) ==
    IF block.hash \in DOMAIN bm
    THEN LET idx == bm[block.hash] IN
         IF block.size = bs[idx + 1].size
         THEN [blocks |-> bs, map |-> bm, result |-> Returned(idx)]
         ELSE [blocks |-> bs, map |-> bm,
               result |-> Raised("AssertionError")]
    ELSE [blocks |-> Append(bs, block),
          map    |-> (block.hash :> Len(bs)) @@ bm,
          result |-> Returned(Len(bs))]

\* get_id: dict.get, None for an unknown hash
get_id(bm, block) ==
    IF block.hash \in DOMAIN bm
    THEN [found |-> TRUE, value |-> bm[block.hash]]
    ELSE [found |-> FALSE]

\* A variant of register that forgets the parent.
register_without_parent(r, block) ==
    LET own == _register(blocks[r], _block_map[r], block) IN
    /\ blocks' = [blocks EXCEPT ![r] = own.blocks]
    /\ _block_map' = [_block_map EXCEPT ![r] = own.map]
    /\ last' = [reg |-> r, block |-> block, result |-> own.result]

\* register: the parent's _register first (an error raised there leaves
\* the call before the registry's own _register runs), then its own.
register(r, block) ==
    IF parent(r) # None
    THEN LET p   == parent(r)
             up  == _register(blocks[p], _block_map[p], block)
             own == _register(blocks[r], _block_map[r], block)
         IN  IF up.result.raised
             THEN /\ UNCHANGED <<blocks, _block_map>>
                  /\ last' = [reg |-> r, block |-> block,
                              result |-> up.result]
             ELSE /\ blocks' = [blocks EXCEPT ![p] = up.blocks,
                                              ![r] = own.blocks]
                  /\ _block_map' = [_block_map EXCEPT ![p] = up.map,
                                                      ![r] = own.map]
                  /\ last' = [reg |-> r, block |-> block,
                              result |-> own.result]
    ELSE LET own == _register(blocks[r], _block_map[r], block) IN
         /\ blocks' = [blocks EXCEPT ![r] = own.blocks]
         /\ _block_map' = [_block_map EXCEPT ![r] = own.map]
         /\ last' = [reg |-> r, block |-> block, result |-> own.result]

\* populate_manifest: the block table is the registry's list, in id order
populate_manifest(bs) == [i \in 1..Len(bs) |-> bs[i]]

---------------------------------------------------------------------------
(* Sequential use of a parent registry and its children *)

NoCall == [reg |-> None]

RegIdle ==
    /\ last = NoCall
    /\ direct = FALSE
    /\ ncalls = 0

ThrIdle ==
    /\ pc = <<>>
    /\ arg = <<>>
    /\ block_id = <<>>
    /\ ret = <<>>

ManIdle ==
    /\ manifest = None
    /\ stage = "none"
    /\ manifest_proto = None
    /\ decoded = None
    /\ expanded = None
    /\ free = 0
    /\ prealloc = None

DiffIdle ==
    /\ remote_file = None
    /\ current_file = None
    /\ file_diff = None

Register ==
    \E r \in Registries, block \in BlockInfo :
        /\ ncalls < MaxCalls
        /\ ncalls' = ncalls + 1
        /\ register(r, block)
        /\ direct' = (direct \/ r = Parent)
        /\ UNCHANGED <<thrVars, manVars, diffVars>>

InitReg ==
    /\ blocks = [r \in Registries |-> <<>>]
    /\ _block_map = [r \in Registries |-> EmptyMap]
    /\ RegIdle
    /\ ThrIdle
    /\ ManIdle
    /\ DiffIdle
NextReg == Register
SpecReg == InitReg /\ [][NextReg]_vars

---------------------------------------------------------------------------
(* Properties of the registry under sequential use *)

HashesOf(bs) == {bs[i].hash : i \in 1..Len(bs)}

\* The registry r holds one entry per hash, and its dict is a bijection
\* between the registered hashes and the ids 0..n-1 that agrees with the list.
RegistryDedup(r) ==
    LET bs == blocks[r]
        bm == _block_map[r]
        table == populate_manifest(bs)
    IN  /\ \A i, j \in 1..Len(bs) : bs[i].hash = bs[j].hash => i = j
        /\ DOMAIN bm = HashesOf(bs)
        /\ {bm[h] : h \in DOMAIN bm} = 0..(Len(bs) - 1)
        /\ \A h \in DOMAIN bm : bs[bm[h] + 1].hash = h
        /\ Len(table) = Cardinality(DOMAIN bm)
        /\ \A h \in DOMAIN bm : table[bm[h] + 1].hash = h

\* A step that registers an already-known hash with its size returns the id
\* the dict held before the call and changes neither the list nor the dict.
KnownHashStep ==
    (/\ ncalls' = ncalls + 1
     /\ last'.block.hash \in DOMAIN _block_map[last'.reg]
     /\ ~last'.result.raised)
    => /\ last'.result.value = _block_map[last'.reg][last'.block.hash]
       /\ blocks'[last'.reg] = blocks[last'.reg]
       /\ _block_map'[last'.reg] = _block_map[last'.reg]

\* C2: after any sequence of register calls every registry holds exactly one
\* entry per distinct hash, its hash->id dict is a bijection onto 0..n-1 that
\* agrees with the block list (and so with the block table populate_manifest
\* writes), and registering a known hash returns its first id and changes
\* nothing.
DedupInvariant ==
    /\ [](\A r \in Registries : RegistryDedup(r))
    /\ [][KnownHashStep]_vars

\* A known hash was registered again and an earlier id came back.
DedupWitness ==
    /\ last.reg # None
    /\ ~last.result.raised
    /\ last.result.value + 1 < Len(blocks[last.reg])
    /\ Len(blocks[last.reg]) >= 2

\* The hash of block is registered in registry q with another size.
SizeConflict(q, block) ==
    /\ block.hash \in DOMAIN _block_map[q]
    /\ blocks[q][_block_map[q][block.hash] + 1].size # block.size

SizeConflictStep ==
    (/\ ncalls' = ncalls + 1
     /\ \/ SizeConflict(last'.reg, last'.block)
        \/ /\ parent(last'.reg) # None
           /\ SizeConflict(parent(last'.reg), last'.block))
    => /\ last'.result.raised
       /\ blocks' = blocks
       /\ _block_map' = _block_map

\* C3: a register call whose hash is already registered (in the registry or
\* in its parent) with a different size raises an error, returns no id, and
\* leaves the lists and dicts of the registry and of its parent unchanged.
SizeConflictRejected == [][SizeConflictStep]_vars

\* A child that holds the hash itself has just refused it with another size.
SizeConflictWitness ==
    /\ last.reg \in Children
    /\ last.result.raised
    /\ last.block.hash \in DOMAIN _block_map[last.reg]
    /\ blocks[last.reg][_block_map[last.reg][last.block.hash] + 1].size
         # last.block.size

\* Every block of a child is in the parent with the same size; with calls
\* on the children only, the parent holds nothing else; the child's ids are
\* the positions of its own list.
SharedPoolState ==
    /\ \A c \in Children : \A i \in 1..Len(blocks[c]) :
           \E j \in 1..Len(blocks[Parent]) : blocks[Parent][j] = blocks[c][i]
    /\ ~direct => HashesOf(blocks[Parent])
                    = UNION {HashesOf(blocks[c]) : c \in Children}
    /\ \A c \in Children :
           /\ DOMAIN _block_map[c] = HashesOf(blocks[c])
           /\ \A i \in 1..Len(blocks[c]) :
                  _block_map[c][blocks[c][i].hash] = i - 1

\* A child's list only grows at its end, by a hash it did not hold: its ids
\* follow its own first registrations.
ChildAppendOnly ==
    \A c \in Children :
        \/ blocks'[c] = blocks[c]
        \/ /\ Len(blocks'[c]) = Len(blocks[c]) + 1
           /\ SubSeq(blocks'[c], 1, Len(blocks[c])) = blocks[c]
           /\ blocks'[c][Len(blocks'[c])].hash \notin HashesOf(blocks[c])

\* C8: after any sequence of register calls on sibling registries, every
\* hash of a child is in the parent with the same size, the parent's hashes
\* are the union of the children's, and each child's ids are dense and in
\* the child's own first-registration order, whatever ids the parent gave.
SharedPool == []SharedPoolState /\ [][ChildAppendOnly]_vars

\* Both children hold blocks, and one holds a hash under another id than
\* the parent does.
SharedPoolWitness ==
    /\ ~direct
    /\ \A c \in Children : Len(blocks[c]) >= 1
    /\ \E c \in Children : \E h \in DOMAIN _block_map[c] :
           _block_map[c][h] # _block_map[Parent][h]

---------------------------------------------------------------------------
(* Concurrent use: threads registering into children of one shared parent. *)
(* No lock guards _register, so each of its lines is a step of its own.    *)

Threads == {"t1", "t2"}

\* The registry each thread calls register on; all share the parent.
registry_of(t) == IF t = "t1" THEN "child1" ELSE "child2"

\* The longest shared block list explored.
MaxShared == 2

ThrInit ==
    /\ pc = [t \in Threads |-> "idle"]
    /\ arg = [t \in Threads |-> [hash |-> "A", size |-> 1]]
    /\ block_id = [t \in Threads |-> 0]
    /\ ret = [t \in Threads |-> [raised |-> FALSE]]

\* register is called (line 80): parent is not None, enter parent._register
Call(t) ==
    /\ pc[t] = "idle"
    /\ Len(blocks[Parent]) < MaxShared
    /\ \E block \in BlockInfo : arg' = [arg EXCEPT ![t] = block]
    /\ pc' = [pc EXCEPT ![t] = "line49"]
    /\ UNCHANGED <<blocks, _block_map, block_id, ret,
                   callVars, manVars, diffVars>>

\* line 49: if block.hash in self._block_map
TestMembership(t) ==
    /\ pc[t] = "line49"
    /\ pc' = [pc EXCEPT ![t] = IF arg[t].hash \in DOMAIN _block_map[Parent]
                               THEN "line51" ELSE "line55"]
    /\ UNCHANGED <<blocks, _block_map, arg, block_id, ret,
                   callVars, manVars, diffVars>>

\* lines 51-53: idx = self._block_map[block.hash]; assert; return idx
Collision(t) ==
    /\ pc[t] = "line51"
    /\ LET idx == _block_map[Parent][arg[t].hash] IN
       IF arg[t].size = blocks[Parent][idx + 1].size
       THEN /\ pc' = [pc EXCEPT ![t] = "line82"]
            /\ ret' = ret
       ELSE /\ pc' = [pc EXCEPT ![t] = "idle"]
            /\ ret' = [ret EXCEPT ![t] = Raised("AssertionError")]
    /\ UNCHANGED <<blocks, _block_map, arg, block_id,
                   callVars, manVars, diffVars>>

\* line 55: block_id = len(self.blocks)
AllocateId(t) ==
    /\ pc[t] = "line55"
    /\ block_id' = [block_id EXCEPT ![t] = Len(blocks[Parent])]
    /\ pc' = [pc EXCEPT ![t] = "line56"]
    /\ UNCHANGED <<blocks, _block_map, arg, ret,
                   callVars, manVars, diffVars>>

\* line 56: self.blocks.append(block)
AppendBlock(t) ==
    /\ pc[t] = "line56"
    /\ blocks' = [blocks EXCEPT ![Parent] = Append(@, arg[t])]
    /\ pc' = [pc EXCEPT ![t] = "line57"]
    /\ UNCHANGED <<_block_map, arg, block_id, ret,
                   callVars, manVars, diffVars>>

\* lines 57-58: self._block_map[block.hash] = block_id; return block_id
InsertMap(t) ==
    /\ pc[t] = "line57"
    /\ _block_map' = [_block_map EXCEPT
                        ![Parent] = (arg[t].hash :> block_id[t])
                                      @@ _block_map[Parent]]
    /\ pc' = [pc EXCEPT ![t] = "line82"]
    /\ UNCHANGED <<blocks, arg, block_id, ret,
                   callVars, manVars, diffVars>>

\* line 82: return self._register(block), on the thread's own registry,
\* which no other thread touches
RegisterOwn(t) ==
    /\ pc[t] = "line82"
    /\ LET r == registry_of(t)
           own == _register(blocks[r], _block_map[r], arg[t])
       IN  /\ blocks' = [blocks EXCEPT ![r] = own.blocks]
           /\ _block_map' = [_block_map EXCEPT ![r] = own.map]
           /\ ret' = [ret EXCEPT ![t] = own.result]
    /\ pc' = [pc EXCEPT ![t] = "idle"]
    /\ UNCHANGED <<arg, block_id,
                   callVars, manVars, diffVars>>

InitConc ==
    /\ blocks = [r \in Registries |-> <<>>]
    /\ _block_map = [r \in Registries |-> EmptyMap]
    /\ RegIdle
    /\ ThrInit
    /\ ManIdle
    /\ DiffIdle

NextConc ==
    \E t \in Threads :
        \/ Call(t)
        \/ TestMembership(t)
        \/ Collision(t)
        \/ AllocateId(t)
        \/ AppendBlock(t)
        \/ InsertMap(t)
        \/ RegisterOwn(t)

SpecConc == InitConc /\ [][NextConc]_vars

\* C4: under every interleaving of the threads' register calls the shared
\* parent never holds two entries with one hash, never maps a hash to an id
\* whose block has another hash, and every finished call has returned the id
\* a sequential run gives (the id of the hash in the caller's own registry).
ConcurrentRegisterSafe ==
    /\ \A i, j \in 1..Len(blocks[Parent]) :
           blocks[Parent][i].hash = blocks[Parent][j].hash => i = j
    /\ \A h \in DOMAIN _block_map[Parent] :
           /\ _block_map[Parent][h] < Len(blocks[Parent])
           /\ blocks[Parent][_block_map[Parent][h] + 1].hash = h
    /\ \A t \in Threads :
           (pc[t] = "idle" /\ DOMAIN ret[t] = {"raised", "value"})
           => _block_map[registry_of(t)][arg[t].hash] = ret[t].value

---------------------------------------------------------------------------
(* Paths and the item trie *)

\* A path is a string, modelled as the sequence of its characters.
Sep == "/"

RECURSIVE split(_, _)
\* str.split(sep): the pieces between the separators, empty pieces kept
split(str, sep) ==
    IF \A i \in 1..Len(str) : str[i] # sep
    THEN <<str>>
    ELSE LET k == CHOOSE i \in 1..Len(str) :
                      str[i] = sep /\ \A j \in 1..(i - 1) : str[j] # sep
         IN  <<SubSeq(str, 1, k - 1)>> \o split(SubSeq(str, k + 1, Len(str)), sep)

RECURSIVE join(_, _)
join(comps, sep) ==
    IF Len(comps) = 0 THEN <<>>
    ELSE IF Len(comps) = 1 THEN comps[1]
    ELSE comps[1] \o <<sep>> \o join(Tail(comps), sep)

RECURSIVE norm_comps(_, _)
norm_comps(comps, acc) ==
    IF comps = <<>> THEN acc
    ELSE LET c == Head(comps) IN
         IF c = <<>> \/ c = <<".">>
         THEN norm_comps(Tail(comps), acc)
         ELSE IF c = <<".", ".">> /\ acc # <<>> /\ acc[Len(acc)] # <<".", ".">>
         THEN norm_comps(Tail(comps), SubSeq(acc, 1, Len(acc) - 1))
         ELSE norm_comps(Tail(comps), Append(acc, c))

\* os.path.normpath of a relative path: empty and "." components dropped,
\* "name/.." collapsed, "." for an empty result
normpath(path) ==
    LET comps == norm_comps(split(path, Sep), <<>>) IN
    IF comps = <<>> THEN <<".">> ELSE join(comps, Sep)

\* os.path.dirname: what precedes the last separator
dirname(path) ==
    LET comps == split(path, Sep) IN
    join(SubSeq(comps, 1, Len(comps) - 1), Sep)

\* A node of the trie is named by the components from manifest.items down
\* to it; items maps each node that exists to its message (its block
\* ranges). The children of a node are the nodes one component longer.
children(items, node) ==
    {q \in DOMAIN items :
        Len(q) = Len(node) + 1 /\ SubSeq(q, 1, Len(node)) = node}

NewItem == [blocks |-> <<>>]

\* ItemTrie.add: indexing a message map creates the entry that is missing,
\* so every node along the path exists afterwards; the last one is returned.
ItemTrie_add(items, path) ==
    LET comps == split(normpath(path), Sep)
        along == {SubSeq(comps, 1, n) : n \in 1..Len(comps)}
    IN  [items |-> [q \in DOMAIN items \cup along |->
                       IF q \in DOMAIN items THEN items[q] ELSE NewItem],
         item  |-> comps]

---------------------------------------------------------------------------
(* Messages of manifest_pb2 *)

\* The size a new ManifestBlockRange holds when only start_id is given.
RangeDefaultSize == 1

\* What reading the size of a ManifestBlockProto gives once it is cleared.
BlockDefaultSize == 0

\* ManifestBlockRange(start_id=block_id); a start_id of None leaves the
\* field at its default, 0
ManifestBlockRange(id) ==
    [start_id |-> IF id.found THEN id.value ELSE 0, size |-> RangeDefaultSize]

\* BlockInfo.to_proto: hash and size both set
BlockInfo_to_proto(block) ==
    [hash |-> block.hash, has_size |-> TRUE, size |-> block.size]

\* block.ClearField('size')
ClearField_size(proto) ==
    [hash |-> proto.hash, has_size |-> FALSE, size |-> BlockDefaultSize]

\* BlockInfo.from_proto(proto, manifest): with_manifest is FALSE when the
\* manifest argument is left at None
BlockInfo_from_proto(proto, with_manifest, max_block_size) ==
    [hash |-> proto.hash,
     size |-> IF with_manifest /\ ~proto.has_size
              THEN max_block_size ELSE proto.size]

---------------------------------------------------------------------------
(* FileInfo *)

RECURSIVE ranges_never_merge(_, _, _)
ranges_never_merge(fblocks, bm, i) ==
    IF i > Len(fblocks) THEN <<>>
    ELSE <<ManifestBlockRange(get_id(bm, fblocks[i]))>>
            \o ranges_never_merge(fblocks, bm, i + 1)

\* A variant of _get_block_ranges that starts a new range at every block.
_get_block_ranges_never_merge(fblocks, bm) ==
    ranges_never_merge(fblocks, bm, 1)

RECURSIVE ranges_loop(_, _, _, _, _)
\* The loop of _get_block_ranges from block i on: cur is current_range with
\* current_id (open is FALSE while both are None), out what was yielded.
ranges_loop(fblocks, bm, i, cur, out) ==
    IF i > Len(fblocks)
    THEN IF cur.open THEN Append(out, cur.range) ELSE out
    ELSE LET block_range == ManifestBlockRange(get_id(bm, fblocks[i])) IN
         IF cur.open /\ block_range.start_id = cur.id
         THEN ranges_loop(fblocks, bm, i + 1,
                  [open  |-> TRUE,
                   range |-> [start_id |-> cur.range.start_id,
                              size |-> cur.range.size + block_range.size],
                   id    |-> cur.id + block_range.size],
                  out)
         ELSE ranges_loop(fblocks, bm, i + 1,
                  [open  |-> TRUE,
                   range |-> block_range,
                   id    |-> block_range.start_id + block_range.size],
                  IF cur.open THEN Append(out, cur.range) ELSE out)

\* FileInfo._get_block_ranges against a registry whose dict is bm
_get_block_ranges(fblocks, bm) ==
    ranges_loop(fblocks, bm, 1, [open |-> FALSE], <<>>)

\* FileInfo.to_proto: the item of the path gets the file's ranges
FileInfo_to_proto(file_info, bm, items) ==
    LET added == ItemTrie_add(items, file_info.path) IN
    [added.items EXCEPT
        ![added.item] = [blocks |-> _get_block_ranges(file_info.blocks, bm)]]

RECURSIVE expand(_, _)
expand(ranges, table) ==
    IF ranges = <<>> THEN <<>>
    ELSE LET start == Head(ranges).start_id
             end == start + Head(ranges).size
         IN  [idx \in 1..(end - start) |->
                 BlockInfo_from_proto(table[start + idx], FALSE, 0)]
             \o expand(Tail(ranges), table)

\* FileInfo._get_blocks(proto, manifest): a range outside the block table
\* raises IndexError; BlockInfo.from_proto is called without the manifest
_get_blocks(item, proto) ==
    IF \E i \in 1..Len(item.blocks) :
           \/ item.blocks[i].start_id < 0
           \/ item.blocks[i].start_id + item.blocks[i].size > Len(proto.blocks)
    THEN Raised("IndexError")
    ELSE Returned(expand(item.blocks, proto.blocks))

\* The attributes a FileInfo has: the fields of its namedtuple
FileInfoFields == {"path", "blocks"}

\* file_info.<name>
getattr(file_info, name) ==
    IF name \in FileInfoFields
    THEN Returned(file_info[name])
    ELSE Raised("AttributeError")

---------------------------------------------------------------------------
(* Manifest *)

RECURSIVE register_blocks(_, _, _, _)
\* lines 200-201: register every block of a file, in order, with a registry
\* that has no parent; an error raised by register ends the loop
register_blocks(fblocks, i, bs, bm) ==
    IF i > Len(fblocks)
    THEN [raised |-> FALSE, blocks |-> bs, map |-> bm]
    ELSE LET r == _register(bs, bm, fblocks[i]) IN
         IF r.result.raised
         THEN [raised |-> TRUE, blocks |-> bs, map |-> bm]
         ELSE register_blocks(fblocks, i + 1, r.blocks, r.map)

RECURSIVE to_proto_files(_, _, _, _, _)
\* lines 199-202, from file i on: the registry and the trie after the loop
to_proto_files(files, i, bs, bm, items) ==
    IF i > Len(files)
    THEN [raised |-> FALSE, blocks |-> bs, map |-> bm, items |-> items]
    ELSE LET reg == register_blocks(files[i].blocks, 1, bs, bm) IN
         IF reg.raised
         THEN [raised |-> TRUE, blocks |-> bs, map |-> bm, items |-> items]
         ELSE to_proto_files(files, i + 1, reg.blocks, reg.map,
                             FileInfo_to_proto(files[i], reg.map, items))

EmptyItems == [q \in {} |-> NewItem]

\* Manifest.to_proto
to_proto(m) ==
    LET st == to_proto_files(m.files, 1, <<>>, EmptyMap, EmptyItems)
        table == populate_manifest(st.blocks)
    IN  IF st.raised
        THEN Raised("AssertionError")
        ELSE Returned(
               [max_block_size |-> m.max_block_size,
                blocks |-> [i \in 1..Len(table) |->
                              IF table[i].size = m.max_block_size
                              THEN ClearField_size(BlockInfo_to_proto(table[i]))
                              ELSE BlockInfo_to_proto(table[i])],
                items  |-> st.items])

\* The parameters of Manifest.__init__ after self (line 181)
Manifest_init_params == <<"files", "max_block_size">>

\* Manifest.from_proto: line 187 calls Manifest() with no argument, and
\* __init__ has two required parameters, so the call raises TypeError
\* before any item is read.
from_proto(proto) ==
    IF Len(Manifest_init_params) # 0
    THEN Raised("TypeError")
    ELSE Returned([max_block_size |-> proto.max_block_size, files |-> <<>>])

RECURSIVE sum(_)
sum(values) == IF values = <<>> THEN 0 ELSE Head(values) + sum(Tail(values))

\* Manifest.total_space: sum(file_info.size for file_info in self.files)
total_space(m) ==
    LET sizes == [i \in 1..Len(m.files) |-> getattr(m.files[i], "size")] IN
    IF \E i \in 1..Len(sizes) : sizes[i].raised
    THEN Raised("AttributeError")
    ELSE Returned(sum([i \in 1..Len(sizes) |-> sizes[i].value]))

RootDir == <<"r">>

\* The directories os.makedirs(dir) makes: dir and its ancestors
ancestors(dir) ==
    LET comps == split(dir, Sep) IN
    {join(SubSeq(comps, 1, n), Sep) : n \in 1..Len(comps)}

RECURSIVE create_files(_, _, _, _)
\* lines 240-250, from file i on: os.makedirs raises FileExistsError when
\* the directory exists, else the file is created in it
create_files(files, i, dirs, created) ==
    IF i > Len(files)
    THEN [result |-> Returned(None), dirs |-> dirs, files |-> created]
    ELSE LET full_path == RootDir \o <<Sep>> \o files[i].path
             dir == dirname(full_path)
         IN  IF dir \in dirs \cup {RootDir}
             THEN [result |-> Raised("FileExistsError"),
                   dirs |-> dirs, files |-> created]
             ELSE create_files(files, i + 1, dirs \cup ancestors(dir),
                               created \cup {full_path})

\* Manifest.preallocate_space with disk_free bytes free at root_dir: what
\* the call does, and the directories and files it has created
preallocate_space(m, disk_free) ==
    LET total == total_space(m) IN
    IF total.raised
    THEN [result |-> total, dirs |-> {}, files |-> {}]
    ELSE IF disk_free < total.value
    THEN [result |-> Raised("RuntimeError"), dirs |-> {}, files |-> {}]
    ELSE create_files(m.files, 1, {}, {})

---------------------------------------------------------------------------
(* The operations of a built Manifest *)

\* The longest block sequence of a file.
MaxBlocks == 3

FileCounts == {0, 1, 2}
MaxBlockSizes == {2, 3}
Paths == {<<"a">>, <<"b">>, <<"a", "/", "b">>}
FreeSpace == {0, 2, 12}

\* The size of the content each hash stands for.
SizeOfHash(h) == IF h = "A" THEN 1 ELSE 2

ManifestBlocks == {[hash |-> h, size |-> SizeOfHash(h)] : h \in Hashes}

BlockSeqs == UNION {[1..n -> ManifestBlocks] : n \in 0..MaxBlocks}

\* FileInfo = namedtuple('FileInfo', 'path blocks')
FileInfo == [path : Paths, blocks : BlockSeqs]

\* The file tuples of a Manifest: paths unique
FileTuples ==
    {fs \in UNION {[1..n -> FileInfo] : n \in FileCounts} :
        \A i, j \in 1..Len(fs) : fs[i].path = fs[j].path => i = j}

InitManifest ==
    /\ manifest \in [files : FileTuples, max_block_size : MaxBlockSizes]
    /\ stage = "built"
    /\ manifest_proto = None
    /\ decoded = None
    /\ expanded = None
    /\ free = 0
    /\ prealloc = None
    /\ blocks = [r \in Registries |-> <<>>]
    /\ _block_map = [r \in Registries |-> EmptyMap]
    /\ RegIdle
    /\ ThrIdle
    /\ DiffIdle

ToProto ==
    /\ stage = "built"
    /\ manifest_proto' = to_proto(manifest)
    /\ stage' = "serialized"
    /\ UNCHANGED <<manifest, decoded, expanded, free, prealloc,
                   regVars, thrVars, diffVars>>

FromProto ==
    /\ stage = "serialized"
    /\ ~manifest_proto.raised
    /\ decoded' = from_proto(manifest_proto.value)
    /\ stage' = "decoded"
    /\ UNCHANGED <<manifest, manifest_proto, expanded, free, prealloc,
                   regVars, thrVars, diffVars>>

\* _get_blocks applied to every item of the serialized trie
GetBlocks ==
    /\ stage = "serialized"
    /\ ~manifest_proto.raised
    /\ expanded' = [q \in DOMAIN manifest_proto.value.items |->
                       _get_blocks(manifest_proto.value.items[q],
                                   manifest_proto.value)]
    /\ stage' = "expanded"
    /\ UNCHANGED <<manifest, manifest_proto, decoded, free, prealloc,
                   regVars, thrVars, diffVars>>

PreallocateSpace ==
    /\ stage = "built"
    /\ \E disk_free \in FreeSpace :
           /\ free' = disk_free
           /\ prealloc' = preallocate_space(manifest, disk_free)
    /\ stage' = "preallocated"
    /\ UNCHANGED <<manifest, manifest_proto, decoded, expanded,
                   regVars, thrVars, diffVars>>

NextManifest == ToProto \/ FromProto \/ GetBlocks \/ PreallocateSpace

SpecManifest == InitManifest /\ [][NextManifest]_vars

---------------------------------------------------------------------------
(* Properties of the serialization *)

\* The (hash, size) pairs of a block sequence, in order
HashSizes(bs) == [i \in 1..Len(bs) |-> <<bs[i].hash, bs[i].size>>]

\* C1: decoding the encoding of a manifest gives a manifest with the same
\* max_block_size, the same set of file paths and, for each path, the same
\* ordered sequence of (hash, size) blocks.
RoundTrip ==
    stage = "decoded" =>
        /\ ~decoded.raised
        /\ decoded.value.max_block_size = manifest.max_block_size
        /\ {decoded.value.files[i].path : i \in 1..Len(decoded.value.files)}
             = {manifest.files[i].path : i \in 1..Len(manifest.files)}
        /\ \A i \in 1..Len(manifest.files) :
               \E j \in 1..Len(decoded.value.files) :
                   /\ decoded.value.files[j].path = manifest.files[i].path
                   /\ HashSizes(decoded.value.files[j].blocks)
                        = HashSizes(manifest.files[i].blocks)

\* The id of a hash in the serialized block table
TableId(table, h) == (CHOOSE i \in 1..Len(table) : table[i].hash = h) - 1

RECURSIVE Flatten(_)
\* The ids a list of ranges stands for
Flatten(ranges) ==
    IF ranges = <<>> THEN <<>>
    ELSE [k \in 1..Head(ranges).size |-> Head(ranges).start_id + k - 1]
            \o Flatten(Tail(ranges))

\* ranges is the split of ids into maximal runs of consecutive ids
MaximalRuns(ranges, ids) ==
    /\ Flatten(ranges) = ids
    /\ \A j \in 1..Len(ranges) : ranges[j].size >= 1
    /\ \A j \in 1..(Len(ranges) - 1) :
           ranges[j + 1].start_id # ranges[j].start_id + ranges[j].size

\* The ranges to_proto stored for file_info
RangesOf(file_info) ==
    manifest_proto.value.items[split(normpath(file_info.path), Sep)].blocks

\* The ids of the blocks of file_info in the serialized block table
IdsOf(file_info) ==
    [k \in 1..Len(file_info.blocks) |->
        TableId(manifest_proto.value.blocks, file_info.blocks[k].hash)]

DefaultSizeOmission ==
    stage = "expanded" =>
        LET table == manifest_proto.value.blocks IN
        /\ \A i \in 1..Len(table) :
               LET block == CHOOSE b \in ManifestBlocks : b.hash = table[i].hash
               IN  /\ table[i].has_size <=> block.size # manifest.max_block_size
                   /\ table[i].has_size => table[i].size = block.size
        /\ \A q \in DOMAIN expanded :
               /\ ~expanded[q].raised
               /\ \A k \in 1..Len(expanded[q].value) :
                      LET b == expanded[q].value[k] IN
                      ~table[TableId(table, b.hash) + 1].has_size
                          => b.size = manifest.max_block_size

\* C10: after to_proto every node of the trie that holds block ranges has
\* no children.
TrieLeafInvariant ==
    (stage = "serialized" /\ ~manifest_proto.raised) =>
        \A q \in DOMAIN manifest_proto.value.items :
            Len(manifest_proto.value.items[q].blocks) > 0
                => children(manifest_proto.value.items, q) = {}

RECURSIVE SumOfSizes(_)
SumOfSizes(bs) == IF bs = <<>> THEN 0 ELSE Head(bs).size + SumOfSizes(Tail(bs))

RECURSIVE TotalSize(_)
\* The sum over the files of the sum of their block sizes
TotalSize(files) ==
    IF files = <<>> THEN 0
    ELSE SumOfSizes(Head(files).blocks) + TotalSize(Tail(files))

\* C9: when the free space is less than the manifest's total size,
\* preallocate_space fails with its resource error (the RuntimeError of
\* line 238) and has created no file and no directory.
PreallocationGuard ==
    (stage = "preallocated" /\ free < TotalSize(manifest.files)) =>
        /\ prealloc.result.raised
        /\ prealloc.result.error = "RuntimeError"
        /\ prealloc.files = {}
        /\ prealloc.dirs = {}

---------------------------------------------------------------------------
(* FileDiff *)

\* An optional FileInfo argument: <<>> for None, <<file_info>> otherwise.
NoFile == <<>>

\* The parameters of FileDiff._generate_changed_blocks (line 271): the
\* method is declared without self
_generate_changed_blocks_params == <<"remote", "current">>

\* The body of _generate_changed_blocks (lines 272-283): positions are
\* 0-based, a block past the end of a sequence has the hash None, and a
\* position whose hashes differ maps to (c_hash, r_hash)
_generate_changed_blocks(remote, current) ==
    LET r_blocks == IF remote # NoFile THEN remote[1].blocks ELSE <<>>
        c_blocks == IF current # NoFile THEN current[1].blocks ELSE <<>>
        longest == IF Len(r_blocks) > Len(c_blocks)
                   THEN Len(r_blocks) ELSE Len(c_blocks)
        r_hash(idx) == IF idx < Len(r_blocks) THEN r_blocks[idx + 1].hash
                       ELSE None
        c_hash(idx) == IF idx < Len(c_blocks) THEN c_blocks[idx + 1].hash
                       ELSE None
    IN  [idx \in {i \in 0..(longest - 1) : c_hash(i) # r_hash(i)} |->
            <<c_hash(idx), r_hash(idx)>>]

\* FileDiff.__init__: line 267 reads remote_file.size, which no FileInfo
\* has; line 268 calls the bound method with self and two more arguments
FileDiff(remote, current) ==
    LET new_size == IF remote # NoFile
                    THEN getattr(remote[1], "size")
                    ELSE Returned(None)
    IN  IF new_size.raised
        THEN new_size
        ELSE IF Len(_generate_changed_blocks_params) # 3
        THEN Raised("TypeError")
        ELSE Returned([deleted |-> remote = NoFile,
                       new_size |-> new_size.value,
                       changed_blocks |->
                           _generate_changed_blocks(remote, current)])

\* FileDiff.has_changed
has_changed(diff) ==
    diff.deleted \/ Cardinality(DOMAIN diff.changed_blocks) > 0

OptionalFiles ==
    {NoFile} \cup {<<[path |-> <<"a">>, blocks |-> bs]>> : bs \in BlockSeqs}

InitDiff ==
    /\ remote_file \in OptionalFiles
    /\ current_file \in OptionalFiles
    /\ file_diff = None
    /\ manifest = None
    /\ stage = "files"
    /\ manifest_proto = None
    /\ decoded = None
    /\ expanded = None
    /\ free = 0
    /\ prealloc = None
    /\ blocks = [r \in Registries |-> <<>>]
    /\ _block_map = [r \in Registries |-> EmptyMap]
    /\ RegIdle
    /\ ThrIdle

NewFileDiff ==
    /\ stage = "files"
    /\ file_diff' = FileDiff(remote_file, current_file)
    /\ stage' = "diffed"
    /\ UNCHANGED <<remote_file, current_file, manifest, manifest_proto,
                   decoded, expanded, free, prealloc, regVars, thrVars>>

\* The body of _generate_changed_blocks applied to the two files, as a
\* call through the class, FileDiff._generate_changed_blocks(remote,
\* current), runs it
GenerateChangedBlocks ==
    /\ stage = "files"
    /\ file_diff' = _generate_changed_blocks(remote_file, current_file)
    /\ stage' = "generated"
    /\ UNCHANGED <<remote_file, current_file, manifest, manifest_proto,
                   decoded, expanded, free, prealloc, regVars, thrVars>>

NextDiff == NewFileDiff \/ GenerateChangedBlocks

SpecDiff == InitDiff /\ [][NextDiff]_vars

\* The hash at 0-based position idx of an optional file, None past its end
HashAt(file, idx) ==
    IF file # NoFile /\ idx < Len(file[1].blocks)
    THEN file[1].blocks[idx + 1].hash
    ELSE None

LongestOf(remote, current) ==
    LET r == IF remote # NoFile THEN Len(remote[1].blocks) ELSE 0
        c == IF current # NoFile THEN Len(current[1].blocks) ELSE 0
    IN  IF r > c THEN r ELSE c

\* C6: FileDiff(remote, current).changed_blocks has as keys exactly the
\* positions below the longer length at which the hashes differ, the entry
\* at such a position is (old_hash, new_hash) = (remote's hash, current's
\* hash), both in what _generate_changed_blocks computes and in the FileDiff
\* built from the two files, whose has_changed is true when there is such a
\* position.
PositionalDiff ==
    /\ stage = "generated" =>
        /\ DOMAIN file_diff
             = {i \in 0..(LongestOf(remote_file, current_file) - 1) :
                   HashAt(remote_file, i) # HashAt(current_file, i)}
        /\ \A i \in DOMAIN file_diff :
               file_diff[i]
                 = <<HashAt(remote_file, i), HashAt(current_file, i)>>
    /\ stage = "diffed" =>
        /\ ~file_diff.raised
        /\ DOMAIN file_diff.value.changed_blocks
             = {i \in 0..(LongestOf(remote_file, current_file) - 1) :
                   HashAt(remote_file, i) # HashAt(current_file, i)}
        /\ \A i \in DOMAIN file_diff.value.changed_blocks :
               file_diff.value.changed_blocks[i]
                 = <<HashAt(remote_file, i), HashAt(current_file, i)>>
        /\ DOMAIN file_diff.value.changed_blocks # {}
             => has_changed(file_diff.value)

====
